---- MODULE Spec2Model ----
(***************************************************************************)
(* Conversation continuity and event-stream normalisation of the nexus     *)
(* backend:                                                                *)
(*   - patched_run_agent  (backend/patches/agui_event_stream.py): the      *)
(*     event loop that buffers TEXT_MESSAGE_START, deduplicates tool       *)
(*     calls and closes open messages at RUN_FINISHED;                     *)
(*   - ResponsesApiThreadMiddleware (backend/middleware/responses_api.py): *)
(*     thread id -> response id store, message filters, stream capture.    *)
(***************************************************************************)
EXTENDS Integers, Sequences, FiniteSets, TLC

\* ------------------------------------------------------------------------
\* Values
\* ------------------------------------------------------------------------

\* Python's None.  Strings stand for str values; "" is the empty str.
None == "<None>"

\* Python truthiness of an optional str: None and "" are falsy.
Truthy(x) == x # None /\ x # ""

\* ------------------------------------------------------------------------
\* Bounds
\* ------------------------------------------------------------------------

\* Longest text-centred input event stream fed to patched_run_agent.
MaxTextEvents == 5

\* Longest tool-centred input event stream fed to patched_run_agent.
MaxToolEvents == 4

\* Longest message list handed to a message filter.
MaxMessages == 3
\* Calls of clear_thread_mapping in one behaviour.
MaxClearCalls == 2


\* ------------------------------------------------------------------------
\* AG-UI events (ag_ui.core) as seen by patched_run_agent
\* ------------------------------------------------------------------------

Event(t, mid, tcid, tname) ==
    [type |-> t, message_id |-> mid, tool_call_id |-> tcid, tool_call_name |-> tname]

TextMessageStartEvent(m)   == Event("TEXT_MESSAGE_START", m, None, None)
TextMessageContentEvent(m) == Event("TEXT_MESSAGE_CONTENT", m, None, None)
TextMessageEndEvent(m)     == Event("TEXT_MESSAGE_END", m, None, None)
ToolCallStartEvent(c, n)   == Event("TOOL_CALL_START", None, c, n)
ToolCallArgsEvent(c)       == Event("TOOL_CALL_ARGS", None, c, None)
ToolCallEndEvent(c)        == Event("TOOL_CALL_END", None, c, None)
ToolCallResultEvent(c)     == Event("TOOL_CALL_RESULT", None, c, None)
RunFinishedEvent           == Event("RUN_FINISHED", None, None, None)
MessagesSnapshotEvent      == Event("MESSAGES_SNAPSHOT", None, None, None)
\* Any event type the loop has no branch for (RUN_STARTED, STATE_SNAPSHOT, ...).
OtherEvent                 == Event("RUN_STARTED", None, None, None)

\* Message ids and tool call ids are str fields; "" is the falsy str the
\* `if msg_id:` / `if tool_call_id:` tests of the loop distinguish.
MsgIds    == {"", "m1"}
ToolIds   == {"", "a", "b"}
ToolNames == {"filter_flights", "get_flights"}

\* Input alphabet of text-centred streams.
TextAlphabet ==
    {TextMessageStartEvent(m) : m \in MsgIds}
    \cup {TextMessageContentEvent(m) : m \in MsgIds}
    \cup {TextMessageEndEvent(m) : m \in MsgIds}
    \cup {ToolCallStartEvent("a", "filter_flights"), ToolCallArgsEvent("a"),
          ToolCallEndEvent("a"), ToolCallResultEvent("a"),
          RunFinishedEvent, MessagesSnapshotEvent, OtherEvent}

\* Input alphabet of tool-centred streams.
ToolAlphabet ==
    {ToolCallStartEvent(c, n) : c \in ToolIds, n \in ToolNames}
    \cup {ToolCallArgsEvent(c) : c \in ToolIds}
    \cup {ToolCallEndEvent(c) : c \in ToolIds}
    \cup {ToolCallResultEvent(c) : c \in ToolIds}
    \cup {TextMessageStartEvent("m1"), TextMessageContentEvent("m1"),
          TextMessageEndEvent("m1"),
          RunFinishedEvent, MessagesSnapshotEvent, OtherEvent}

\* ------------------------------------------------------------------------
\* State
\* ------------------------------------------------------------------------

VARIABLES
    \* patched_run_agent: the events read so far from _original_run_agent
    \* and the events yielded so far (src = index of the input event that
    \* was yielded, 0 for an event the loop constructed itself).
    inp, out,
    \* patched_run_agent locals
    pending_text_start,      \* <<>> (None) or <<event>>
    emitted_messages,
    messages_with_content,
    emitted_tool_calls,
    emitted_tool_names,
    suppressed_tool_ids,
    \* message filters: context.messages, the list as it was handed in, and
    \* the filter method that has run on it ("none" before any has).
    ctx_messages, ctx_original, ctx_filter,
    \* responses_api._thread_response_store: a dict, here a function whose
    \* domain is the set of keys.
    thread_response_store,
    \* The chat turns in flight, one per task: the locals of process() and of
    \* the stream wrapper, and what the turn was handed.
    turn,
    \* Per thread id, the handle the last finished turn extracted (None when
    \* it extracted none, failed or was abandoned).
    last_produced,
    \* assistants_api._agui_to_assistant_thread_store: a dict, as above.
    agui_to_assistant_thread_store,
    \* The chat turn through AssistantsApiThreadMiddleware: the locals of its
    \* process() and of _capture_thread_id.
    assistant_turn,
    \* The calls of clear_thread_mapping made so far, each with its argument
    \* and the value it returned.
    clear_calls,
    \* patched_run_agent: the input_data dict of the call, and the ContextVar
    \* responses_api._current_agui_thread_id (default None).
    input_data, current_agui_thread_id

normVars == <<inp, out, pending_text_start, emitted_messages, messages_with_content,
              emitted_tool_calls, emitted_tool_names, suppressed_tool_ids>>

filterVars == <<ctx_messages, ctx_original, ctx_filter>>

mwVars == <<thread_response_store, turn, last_produced>>

asstVars == <<agui_to_assistant_thread_store, assistant_turn, clear_calls>>

runVars == <<input_data, current_agui_thread_id>>

vars == <<normVars, filterVars, mwVars, asstVars, runVars>>

\* ------------------------------------------------------------------------
\* patched_run_agent: the thread id of the call
\* ------------------------------------------------------------------------

\* A thread id as a request carries it: None (key absent or null), the
\* empty string, or an id.
RequestIds == {None, "", "t1", "t2"}

\* input_data as the resolution reads it: per item of input_data["context"]
\* the threadId of its JSON value, then thread_id, threadId,
\* forwardedProps.threadId and state.threadId.
InputData ==
    [context : {<<>>} \cup {<<a>> : a \in {None, "t1"}}
                     \cup {<<a, b>> : a \in {"t1", "t2"}, b \in {None, "", "t2"}},
     thread_id : RequestIds, threadId : RequestIds,
     forwardedProps : RequestIds, state : RequestIds]

\* An input_data with none of the keys.
NoInputData ==
    [context |-> <<>>, thread_id |-> None, threadId |-> None,
     forwardedProps |-> None, state |-> None]

\* str(uuid.uuid4())
FreshUuid == "uuid"

\* `for ctx_item in context_list: if "threadId" in ctx_value and
\* ctx_value["threadId"]: context_thread_id = ctx_value["threadId"]`
RECURSIVE ContextThreadId(_)
ContextThreadId(context_list) ==
    IF context_list = <<>> THEN None
    ELSE IF Truthy(context_list[Len(context_list)]) THEN context_list[Len(context_list)]
    ELSE ContextThreadId(SubSeq(context_list, 1, Len(context_list) - 1))

\* `a or b`
Or(a, b) == IF Truthy(a) THEN a ELSE b

\* thread_id = (context_thread_id or input_data.get("thread_id") or
\*   input_data.get("threadId") or forwarded_props.get("threadId") or
\*   state.get("threadId") or str(uuid.uuid4()))
ResolveThreadId(d) ==
    Or(ContextThreadId(d.context),
       Or(d.thread_id, Or(d.threadId, Or(d.forwardedProps, Or(d.state, FreshUuid)))))

\* No call of patched_run_agent under way.
IdleRun ==
    /\ input_data = NoInputData
    /\ current_agui_thread_id = None

\* A call of patched_run_agent with some input_data, before the ContextVar
\* is set.
InitRun ==
    /\ input_data \in InputData
    /\ current_agui_thread_id = None

\* `get_current_agui_thread_id().set(thread_id)`
SetThreadId ==
    /\ current_agui_thread_id = None
    /\ current_agui_thread_id' = ResolveThreadId(input_data)
    /\ UNCHANGED <<input_data, normVars, filterVars, mwVars, asstVars>>

NextRun == SetThreadId

\* ------------------------------------------------------------------------
\* patched_run_agent: the event loop
\* ------------------------------------------------------------------------

\* `yield event` of the input event being processed.
Yield(e) == [event |-> e, src |-> Len(inp) + 1]

\* `yield pending_text_start`: the buffered event was input number k.
YieldBuffered(e) == [event |-> e.event, src |-> e.src]

\* `yield TextMessageEndEvent(message_id=open_msg_id)`
YieldInjected(m) == [event |-> TextMessageEndEvent(m), src |-> 0]

\* All orders in which `for x in list(S)` may visit a set.
Orders(S) ==
    {s \in [1..Cardinality(S) -> S] : \A i, j \in 1..Cardinality(S) : i # j => s[i] # s[j]}

InitNormalizer ==
    /\ inp = <<>>
    /\ out = <<>>
    /\ pending_text_start = <<>>
    /\ emitted_messages = {}
    /\ messages_with_content = {}
    /\ emitted_tool_calls = {}
    /\ emitted_tool_names = {}
    /\ suppressed_tool_ids = {}

\* No message filter under way.
IdleFilter ==
    /\ ctx_messages = <<>>
    /\ ctx_original = <<>>
    /\ ctx_filter = "none"

\* The loop takes input event e; nothing outside patched_run_agent changes.
Consume(e) ==
    /\ inp' = Append(inp, e)
    /\ UNCHANGED <<filterVars, mwVars, asstVars, runVars>>

\* Sensitivity variant: an earlier pending start is kept.
HandleTextMessageStartKeepsOlder(e) ==
    /\ e.type = "TEXT_MESSAGE_START"
    /\ pending_text_start' =
           IF pending_text_start # <<>> THEN pending_text_start
           ELSE <<[event |-> e, src |-> Len(inp) + 1]>>
    /\ Consume(e)
    /\ UNCHANGED <<out, emitted_messages, messages_with_content,
                   emitted_tool_calls, emitted_tool_names, suppressed_tool_ids>>

\* elif-chain branch 1: buffer the start, replacing any earlier pending one.
HandleTextMessageStart(e) ==
    /\ e.type = "TEXT_MESSAGE_START"
    /\ pending_text_start' = <<[event |-> e, src |-> Len(inp) + 1]>>
    /\ Consume(e)
    /\ UNCHANGED <<out, emitted_messages, messages_with_content,
                   emitted_tool_calls, emitted_tool_names, suppressed_tool_ids>>

\* Sensitivity variant: any content releases the pending start.
ReleasesPendingAny(e) == pending_text_start # <<>>

\* The pending start is released when the content carries its message id.
ReleasesPending(e) ==
    /\ pending_text_start # <<>>
    /\ pending_text_start[1].event.message_id = e.message_id

\* Sensitivity variant: content is never recorded.
ContentMarkedNever(mwc, msg_id) == mwc

\* `if msg_id: messages_with_content.add(msg_id)`
ContentMarked(mwc, msg_id) == IF Truthy(msg_id) THEN mwc \cup {msg_id} ELSE mwc

\* elif-chain branch 2
HandleTextMessageContent(e) ==
    /\ e.type = "TEXT_MESSAGE_CONTENT"
    /\ IF ReleasesPending(e)
       THEN /\ out' = out \o <<YieldBuffered(pending_text_start[1]), Yield(e)>>
            /\ emitted_messages' = emitted_messages \cup {pending_text_start[1].event.message_id}
            /\ pending_text_start' = <<>>
       ELSE /\ out' = Append(out, Yield(e))
            /\ UNCHANGED <<emitted_messages, pending_text_start>>
    /\ messages_with_content' = ContentMarked(messages_with_content, e.message_id)
    /\ Consume(e)
    /\ UNCHANGED <<emitted_tool_calls, emitted_tool_names, suppressed_tool_ids>>

\* Sensitivity variant: every end passes.
EndIsEmittedAlways(msg_id, open) == TRUE

\* `if msg_id in emitted_messages`
EndIsEmitted(msg_id, open) == msg_id \in open

\* elif-chain branch 3
HandleTextMessageEnd(e) ==
    /\ e.type = "TEXT_MESSAGE_END"
    /\ IF EndIsEmitted(e.message_id, emitted_messages)
       THEN /\ out' = Append(out, Yield(e))
            /\ emitted_messages' = emitted_messages \ {e.message_id}
       ELSE UNCHANGED <<out, emitted_messages>>
    /\ Consume(e)
    /\ UNCHANGED <<pending_text_start, messages_with_content,
                   emitted_tool_calls, emitted_tool_names, suppressed_tool_ids>>

\* Sensitivity variant: the test on the call id never fires.
DuplicateByIdNever(tool_call_id, seen) == FALSE

\* `if tool_call_id and tool_call_id in emitted_tool_calls`
DuplicateById(tool_call_id, seen) == Truthy(tool_call_id) /\ tool_call_id \in seen

\* Sensitivity variant: the test on the tool name never fires.
DuplicateByNameNever(tool_name, seen) == FALSE

\* `if tool_name in emitted_tool_names`
DuplicateByName(tool_name, seen) == tool_name \in seen

\* `if tool_call_id: S.add(tool_call_id)`
AddIfTruthy(S, tool_call_id) == IF Truthy(tool_call_id) THEN S \cup {tool_call_id} ELSE S

\* elif-chain branch 4
HandleToolCallStart(e) ==
    /\ e.type = "TOOL_CALL_START"
    /\ pending_text_start' = <<>>
    /\ IF DuplicateById(e.tool_call_id, emitted_tool_calls)
       THEN /\ suppressed_tool_ids' = suppressed_tool_ids \cup {e.tool_call_id}
            /\ UNCHANGED <<out, emitted_tool_calls, emitted_tool_names>>
       ELSE IF DuplicateByName(e.tool_call_name, emitted_tool_names)
       THEN /\ suppressed_tool_ids' = AddIfTruthy(suppressed_tool_ids, e.tool_call_id)
            /\ UNCHANGED <<out, emitted_tool_calls, emitted_tool_names>>
       ELSE /\ emitted_tool_calls' = AddIfTruthy(emitted_tool_calls, e.tool_call_id)
            /\ emitted_tool_names' = emitted_tool_names \cup {e.tool_call_name}
            /\ out' = Append(out, Yield(e))
            /\ UNCHANGED suppressed_tool_ids
    /\ Consume(e)
    /\ UNCHANGED <<emitted_messages, messages_with_content>>

\* `if tool_call_id and tool_call_id in suppressed_tool_ids`
IsSuppressed(tool_call_id, suppressed) == Truthy(tool_call_id) /\ tool_call_id \in suppressed

\* elif-chain branch 5
HandleToolCallArgs(e) ==
    /\ e.type = "TOOL_CALL_ARGS"
    /\ out' = IF IsSuppressed(e.tool_call_id, suppressed_tool_ids)
              THEN out ELSE Append(out, Yield(e))
    /\ Consume(e)
    /\ UNCHANGED <<pending_text_start, emitted_messages, messages_with_content,
                   emitted_tool_calls, emitted_tool_names, suppressed_tool_ids>>

\* elif-chain branch 6
HandleToolCallEnd(e) ==
    /\ e.type = "TOOL_CALL_END"
    /\ out' = IF IsSuppressed(e.tool_call_id, suppressed_tool_ids)
              THEN out ELSE Append(out, Yield(e))
    /\ Consume(e)
    /\ UNCHANGED <<pending_text_start, emitted_messages, messages_with_content,
                   emitted_tool_calls, emitted_tool_names, suppressed_tool_ids>>

\* The suppression set after a TOOL_CALL_RESULT for a suppressed id:
\* `suppressed_tool_ids.discard(tool_call_id)`
AfterSuppressedResult(suppressed, tool_call_id) == suppressed \ {tool_call_id}

\* elif-chain branch 7
HandleToolCallResult(e) ==
    /\ e.type = "TOOL_CALL_RESULT"
    /\ IF IsSuppressed(e.tool_call_id, suppressed_tool_ids)
       THEN /\ suppressed_tool_ids' = AfterSuppressedResult(suppressed_tool_ids, e.tool_call_id)
            /\ UNCHANGED out
       ELSE /\ out' = Append(out, Yield(e))
            /\ UNCHANGED suppressed_tool_ids
    /\ Consume(e)
    /\ UNCHANGED <<pending_text_start, emitted_messages, messages_with_content,
                   emitted_tool_calls, emitted_tool_names>>

\* Sensitivity variant: the event itself is yielded ahead of the injected ends.
RunFinishedYieldsEventFirst(order, mwc, e) ==
    <<Yield(e)>>
    \o SelectSeq([i \in 1..Len(order) |-> YieldInjected(order[i])],
                 LAMBDA y : y.event.message_id \in mwc)

\* Sensitivity variant: an end is injected for every open message.
RunFinishedYieldsForAllOpen(order, mwc, e) ==
    [i \in 1..Len(order) |-> YieldInjected(order[i])] \o <<Yield(e)>>

\* What the RUN_FINISHED branch yields: the injected ends, visited in the
\* order `order` of list(emitted_messages), then the event itself.
RunFinishedYields(order, mwc, e) ==
    SelectSeq([i \in 1..Len(order) |-> YieldInjected(order[i])],
              LAMBDA y : y.event.message_id \in mwc)
    \o <<Yield(e)>>

\* elif-chain branch 8
HandleRunFinished(e) ==
    /\ e.type = "RUN_FINISHED"
    /\ pending_text_start' = <<>>
    /\ \E order \in Orders(emitted_messages) :
           out' = out \o RunFinishedYields(order, messages_with_content, e)
    /\ emitted_messages' = {}
    /\ messages_with_content' = {}
    /\ emitted_tool_calls' = {}
    /\ emitted_tool_names' = {}
    /\ suppressed_tool_ids' = {}
    /\ Consume(e)

\* Sensitivity variant: the snapshot also drops a buffered start.
HandleMessagesSnapshotDropsPending(e) ==
    /\ e.type = "MESSAGES_SNAPSHOT"
    /\ pending_text_start' = <<>>
    /\ Consume(e)
    /\ UNCHANGED <<out, emitted_messages, messages_with_content,
                   emitted_tool_calls, emitted_tool_names, suppressed_tool_ids>>

\* elif-chain branch 9
HandleMessagesSnapshot(e) ==
    /\ e.type = "MESSAGES_SNAPSHOT"
    /\ Consume(e)
    /\ UNCHANGED <<out, pending_text_start, emitted_messages, messages_with_content,
                   emitted_tool_calls, emitted_tool_names, suppressed_tool_ids>>

HandledTypes ==
    {"TEXT_MESSAGE_START", "TEXT_MESSAGE_CONTENT", "TEXT_MESSAGE_END",
     "TOOL_CALL_START", "TOOL_CALL_ARGS", "TOOL_CALL_END", "TOOL_CALL_RESULT",
     "RUN_FINISHED", "MESSAGES_SNAPSHOT"}

\* else: all other events pass through
HandleOther(e) ==
    /\ e.type \notin HandledTypes
    /\ out' = Append(out, Yield(e))
    /\ Consume(e)
    /\ UNCHANGED <<pending_text_start, emitted_messages, messages_with_content,
                   emitted_tool_calls, emitted_tool_names, suppressed_tool_ids>>

\* The events _original_run_agent may yield next: any of `alphabet` while
\* fewer than `longest` events have been read.
Feed(alphabet, longest) == IF Len(inp) < longest THEN alphabet ELSE {}

TextFeed == Feed(TextAlphabet, MaxTextEvents)
ToolFeed == Feed(ToolAlphabet, MaxToolEvents)

\* One iteration of `async for event in _original_run_agent(self, input_data)`:
\* the if/elif chain on event_type, over a stream of text events ...
NextText ==
    \/ \E e \in TextFeed : HandleTextMessageStart(e)
    \/ \E e \in TextFeed : HandleTextMessageContent(e)
    \/ \E e \in TextFeed : HandleTextMessageEnd(e)
    \/ \E e \in TextFeed : HandleToolCallStart(e)
    \/ \E e \in TextFeed : HandleToolCallArgs(e)
    \/ \E e \in TextFeed : HandleToolCallEnd(e)
    \/ \E e \in TextFeed : HandleToolCallResult(e)
    \/ \E e \in TextFeed : HandleRunFinished(e)
    \/ \E e \in TextFeed : HandleMessagesSnapshot(e)
    \/ \E e \in TextFeed : HandleOther(e)

\* ... and over a stream of tool call events.
NextTool ==
    \/ \E e \in ToolFeed : HandleTextMessageStart(e)
    \/ \E e \in ToolFeed : HandleTextMessageContent(e)
    \/ \E e \in ToolFeed : HandleTextMessageEnd(e)
    \/ \E e \in ToolFeed : HandleToolCallStart(e)
    \/ \E e \in ToolFeed : HandleToolCallArgs(e)
    \/ \E e \in ToolFeed : HandleToolCallEnd(e)
    \/ \E e \in ToolFeed : HandleToolCallResult(e)
    \/ \E e \in ToolFeed : HandleRunFinished(e)
    \/ \E e \in ToolFeed : HandleMessagesSnapshot(e)
    \/ \E e \in ToolFeed : HandleOther(e)

\* ------------------------------------------------------------------------
\* Chat messages (agent_framework ChatMessage) as the filters read them
\* ------------------------------------------------------------------------

\* A content item: its `type` and its `call_id` attribute (None: no such
\* attribute).
Content(t, c) == [type |-> t, call_id |-> c]

TextContent           == Content("text", None)
FunctionCallContent   == Content("function_call", "call_1")
FunctionResultContent == Content("function_result", "call_1")
\* Not a call or a result by type, but carrying a call_id.
ApprovalContent       == Content("function_approval_request", "call_1")
\* Carrying a call_id attribute that is empty.
EmptyCallIdContent    == Content("function_approval_request", "")

\* A message: `role`, the list `contents`, and the attribute `content` other
\* SDK versions use instead (<<>>: absent or empty).
Message(r, cs, c) == [role |-> r, contents |-> cs, content |-> c]

Messages ==
    {Message("user", <<TextContent>>, <<>>),
     Message("user", <<FunctionResultContent>>, <<>>),
     Message("system", <<TextContent>>, <<>>),
     Message("tool", <<FunctionResultContent>>, <<>>),
     Message("assistant", <<>>, <<>>),
     Message("assistant", <<TextContent>>, <<>>),
     Message("assistant", <<TextContent, FunctionCallContent>>, <<>>),
     Message("assistant", <<FunctionResultContent>>, <<>>),
     Message("assistant", <<TextContent, ApprovalContent>>, <<>>),
     Message("assistant", <<EmptyCallIdContent>>, <<>>),
     Message("assistant", <<>>, <<FunctionCallContent>>)}

MessageLists(n) == UNION {[1..k -> Messages] : k \in 0..n}

\* _is_function_call / _is_function_result
IsFunctionCall(c)   == c.type = "function_call"
IsFunctionResult(c) == c.type = "function_result"

\* ------------------------------------------------------------------------
\* ResponsesApiThreadMiddleware._filter_messages_for_api
\* ------------------------------------------------------------------------

\* `for i in range(len(messages) - 1, -1, -1): if role == Role.USER: ... break`
\* scanning down from position i; 0 stands for the code's -1 (none found).
RECURSIVE LastUserIdx(_, _)
LastUserIdx(messages, i) ==
    IF i < 1 THEN 0
    ELSE IF messages[i].role = "user" THEN i
    ELSE LastUserIdx(messages, i - 1)

\* Sensitivity variant: the test on a trailing tool message is left out.
FilterMessagesForApiNoToolTest(messages) ==
    IF messages = <<>> THEN messages
    ELSE IF LastUserIdx(messages, Len(messages)) >= 1
         THEN <<messages[LastUserIdx(messages, Len(messages))]>>
         ELSE messages

\* Sensitivity variant: everything from the last user message on is kept.
FilterMessagesForApiFromLastUser(messages) ==
    IF messages = <<>> THEN messages
    ELSE IF messages[Len(messages)].role = "tool" THEN <<messages[Len(messages)]>>
    ELSE IF LastUserIdx(messages, Len(messages)) >= 1
         THEN SubSeq(messages, LastUserIdx(messages, Len(messages)), Len(messages))
         ELSE messages

\* context.messages after _filter_messages_for_api.
FilterMessagesForApi(messages) ==
    IF messages = <<>> THEN messages
    ELSE IF messages[Len(messages)].role = "tool" THEN <<messages[Len(messages)]>>
    ELSE IF LastUserIdx(messages, Len(messages)) >= 1
         THEN <<messages[LastUserIdx(messages, Len(messages))]>>
         ELSE messages

\* ------------------------------------------------------------------------
\* AssistantsApiThreadMiddleware._filter_to_new_messages
\* ------------------------------------------------------------------------

\* The backward loop that returns at the first user message it meets.
RECURSIVE NewMessagesScan(_, _)
NewMessagesScan(messages, i) ==
    IF i < 1 THEN messages
    ELSE IF messages[i].role = "user" THEN <<messages[i]>>
    ELSE NewMessagesScan(messages, i - 1)

\* context.messages after _filter_to_new_messages.
FilterToNewMessages(messages) ==
    IF messages = <<>> THEN messages
    ELSE IF messages[Len(messages)].role = "tool" THEN <<messages[Len(messages)]>>
    ELSE NewMessagesScan(messages, Len(messages))

\* ------------------------------------------------------------------------
\* ResponsesApiThreadMiddleware._filter_messages_for_fresh_start
\* ------------------------------------------------------------------------

\* `getattr(msg, 'contents', None) or getattr(msg, 'content', None)`
MsgContents(msg) == IF msg.contents # <<>> THEN msg.contents ELSE msg.content

\* Sensitivity variant: the call_id attribute is not looked at.
ToolRelatedContentByTypeOnly(c) == IsFunctionCall(c) \/ IsFunctionResult(c)

\* One content item makes the assistant message tool related.
ToolRelatedContent(c) ==
    \/ IsFunctionCall(c)
    \/ IsFunctionResult(c)
    \/ (c.call_id # None /\ Truthy(c.call_id))

\* `has_tool_related` after the loop over the contents.
HasToolRelated(msg) ==
    \E k \in 1..Len(MsgContents(msg)) : ToolRelatedContent(MsgContents(msg)[k])

\* The loop body: whether msg is appended to `filtered`.
FreshStartKeeps(msg) ==
    IF msg.role = "user" THEN TRUE
    ELSE IF msg.role = "tool" THEN FALSE
    ELSE IF msg.role = "assistant" THEN ~HasToolRelated(msg)
    ELSE TRUE

\* `filtered` after messages[i..] have been visited.
RECURSIVE FreshStartFiltered(_, _)
FreshStartFiltered(messages, i) ==
    IF i > Len(messages) THEN <<>>
    ELSE (IF FreshStartKeeps(messages[i]) THEN <<messages[i]>> ELSE <<>>)
         \o FreshStartFiltered(messages, i + 1)

\* context.messages after _filter_messages_for_fresh_start.
FilterMessagesForFreshStart(messages) ==
    IF messages = <<>> THEN messages
    ELSE IF Len(FreshStartFiltered(messages, 1)) # Len(messages)
         THEN FreshStartFiltered(messages, 1)
         ELSE messages

\* ------------------------------------------------------------------------
\* The filters run on a message list
\* ------------------------------------------------------------------------

InitFilter ==
    /\ ctx_messages \in MessageLists(MaxMessages)
    /\ ctx_original = ctx_messages
    /\ ctx_filter = "none"

RunFilterMessagesForApi ==
    /\ ctx_filter = "none"
    /\ ctx_messages' = FilterMessagesForApi(ctx_messages)
    /\ ctx_filter' = "_filter_messages_for_api"
    /\ UNCHANGED <<ctx_original, normVars, mwVars, asstVars, runVars>>

RunFilterToNewMessages ==
    /\ ctx_filter = "none"
    /\ ctx_messages' = FilterToNewMessages(ctx_messages)
    /\ ctx_filter' = "_filter_to_new_messages"
    /\ UNCHANGED <<ctx_original, normVars, mwVars, asstVars, runVars>>

RunFilterMessagesForFreshStart ==
    /\ ctx_filter = "none"
    /\ ctx_messages' = FilterMessagesForFreshStart(ctx_messages)
    /\ ctx_filter' = "_filter_messages_for_fresh_start"
    /\ UNCHANGED <<ctx_original, normVars, mwVars, asstVars, runVars>>

NextFilter ==
    \/ RunFilterMessagesForApi
    \/ RunFilterToNewMessages
    \/ RunFilterMessagesForFreshStart

\* ------------------------------------------------------------------------
\* Strings the middleware tests with str.startswith
\* ------------------------------------------------------------------------

\* The characters of the strings that occur as handles and prefixes.
Chars(s) ==
    CASE s = ""       -> <<>>
      [] s = "resp_"  -> <<"r", "e", "s", "p", "_">>
      [] s = "conv_"  -> <<"c", "o", "n", "v", "_">>
      [] s = "resp_0" -> <<"r", "e", "s", "p", "_", "0">>
      [] s = "resp_1" -> <<"r", "e", "s", "p", "_", "1">>
      [] s = "resp_2" -> <<"r", "e", "s", "p", "_", "2">>
      [] s = "conv_1" -> <<"c", "o", "n", "v", "_", "1">>
      [] s = "resp"   -> <<"r", "e", "s", "p">>
      [] s = "msg_1"  -> <<"m", "s", "g", "_", "1">>
      [] s = "thread_"  -> <<"t", "h", "r", "e", "a", "d", "_">>
      [] s = "thread_1" -> <<"t", "h", "r", "e", "a", "d", "_", "1">>
      [] s = "thread_2" -> <<"t", "h", "r", "e", "a", "d", "_", "2">>
      [] s = "run_1"    -> <<"r", "u", "n", "_", "1">>

\* str.startswith(prefix)
StartsWith(s, prefix) ==
    /\ Len(Chars(s)) >= Len(Chars(prefix))
    /\ SubSeq(Chars(s), 1, Len(Chars(prefix))) = Chars(prefix)

\* `x.startswith(("resp_", "conv_"))`
HasResponsePrefix(x) == StartsWith(x, "resp_") \/ StartsWith(x, "conv_")

\* ------------------------------------------------------------------------
\* ResponsesApiThreadMiddleware: inputs
\* ------------------------------------------------------------------------

\* Tasks that run a chat turn.
Procs == {1, 2}

\* Values of the _current_agui_thread_id ContextVar: a client thread id, or
\* the default None.
ThreadIds     == {"t1", "t2"}
AguiThreadIds == ThreadIds \cup {None}

\* response_id / conversation_id values the upstream client reports.
ResponseIds     == {None, "", "resp_1", "resp_2", "msg_1"}
ConversationIds == {None, "conv_1", "resp"}

FRONTEND_ONLY_TOOLS ==
    {"filter_dashboard", "setThemeColor", "display_flight_list",
     "display_flight_detail", "display_historical_chart"}

\* A ChatResponseUpdate: its ids and the names of the function_call items in
\* its contents, in order.
Updates ==
    [response_id : {None, "resp_1", "msg_1"}, conversation_id : ConversationIds,
     calls : {<<>>, <<"filter_dashboard">>, <<"get_flights", "">>}]

\* conversation_id as the caller's options carry it in: the key absent, or
\* a stale value.
Unset == "<unset>"
InboundConversationIds == {Unset, "resp_0"}

\* Message lists of the turns.
TurnMessages ==
    {Message("user", <<TextContent>>, <<>>),
     Message("tool", <<FunctionResultContent>>, <<>>)}
TurnMessageLists == UNION {[1..k -> TurnMessages] : k \in 0..2}

\* ------------------------------------------------------------------------
\* ResponsesApiThreadMiddleware: state
\* ------------------------------------------------------------------------

\* The dict operations used on the store.
HasKey(store, k)    == k \in DOMAIN store
Put(store, k, v)    == [x \in DOMAIN store \cup {k} |-> IF x = k THEN v ELSE store[x]]

\* A task that runs no turn.  `outcome` tells how its latest turn ended
\* ("returned": process() returned a ChatResponse or nothing; "raised": an
\* exception left process() or the wrapper; "exhausted": the wrapper ran
\* past its loop; "abandoned": the wrapper was closed at its yield), and
\* `result` is the ChatResponse that turn left in context.result (<<>>: none),
\* `last_response_id` and `last_tool_name` what its wrapper had tracked when
\* it ended.
\* While a wrapper is suspended at its `yield update`, `update` holds that
\* update (<<>>: the loop has not run yet).
IdleTurn ==
    [pc |-> "idle", agui_thread_id |-> None, is_streaming |-> FALSE,
     conversation_id |-> Unset, messages_in |-> <<>>, messages |-> <<>>,
     filter |-> "none", store_at_entry |-> <<>>, wrapper |-> "none",
     last_response_id |-> None, last_tool_name |-> None,
     outcome |-> "none", result |-> <<>>, update |-> <<>>]

InitMiddleware ==
    /\ thread_response_store = <<>>
    /\ turn = [p \in Procs |-> IdleTurn]
    /\ last_produced = [t \in ThreadIds |-> None]

\* The turn of p is over: its task ends, the history keeps what it produced.
Finished(p, outcome, produced, result) ==
    /\ turn' = [turn EXCEPT ![p] =
           [IdleTurn EXCEPT !.outcome = outcome, !.result = result,
                            !.last_response_id = turn[p].last_response_id,
                            !.last_tool_name = turn[p].last_tool_name]]
    /\ last_produced' =
           IF turn[p].agui_thread_id \in ThreadIds
           THEN [last_produced EXCEPT ![turn[p].agui_thread_id] = produced]
           ELSE last_produced

\* ------------------------------------------------------------------------
\* ResponsesApiThreadMiddleware.process, up to `await next(context)`
\* ------------------------------------------------------------------------

\* `if agui_thread_id and agui_thread_id in _thread_response_store`
IsContinuing(agui_thread_id, store) == Truthy(agui_thread_id) /\ HasKey(store, agui_thread_id)

\* Sensitivity variant: a fresh thread keeps the caller's conversation_id.
OutboundConversationIdKeepsInbound(agui_thread_id, store, inbound) ==
    IF IsContinuing(agui_thread_id, store) THEN store[agui_thread_id] ELSE inbound

\* context.options["conversation_id"] when process() calls next(context).
OutboundConversationId(agui_thread_id, store, inbound) ==
    IF IsContinuing(agui_thread_id, store) THEN store[agui_thread_id]
    ELSE IF Truthy(agui_thread_id) THEN None
    ELSE inbound

\* The filter method process() runs on context.messages.
FilterRun(agui_thread_id, store) ==
    IF IsContinuing(agui_thread_id, store) THEN "_filter_messages_for_api"
    ELSE IF Truthy(agui_thread_id) THEN "_filter_messages_for_fresh_start"
    ELSE "none"

\* context.messages when process() calls next(context).
OutboundMessages(agui_thread_id, store, messages) ==
    IF IsContinuing(agui_thread_id, store) THEN FilterMessagesForApi(messages)
    ELSE IF Truthy(agui_thread_id) THEN FilterMessagesForFreshStart(messages)
    ELSE messages

\* The store when process() calls next(context).
StoreAtCall(store, agui_thread_id) == store

Process(p, agui_thread_id, is_streaming, inbound, messages) ==
    /\ turn[p].pc = "idle"
    /\ thread_response_store' = StoreAtCall(thread_response_store, agui_thread_id)
    /\ turn' = [turn EXCEPT ![p] =
           [IdleTurn EXCEPT
               !.pc = "awaiting_next",
               !.agui_thread_id = agui_thread_id,
               !.is_streaming = is_streaming,
               !.conversation_id =
                   OutboundConversationId(agui_thread_id, thread_response_store, inbound),
               !.messages_in = messages,
               !.messages = OutboundMessages(agui_thread_id, thread_response_store, messages),
               !.filter = FilterRun(agui_thread_id, thread_response_store),
               !.store_at_entry = thread_response_store]]
    /\ UNCHANGED <<last_produced, normVars, filterVars, asstVars, runVars>>

\* ------------------------------------------------------------------------
\* ResponsesApiThreadMiddleware.process, after `await next(context)`
\* ------------------------------------------------------------------------

\* Sensitivity variant: conversation_id is preferred to response_id.
ExtractResponseIdConversationFirst(response_id, conversation_id) ==
    IF Truthy(conversation_id) THEN conversation_id ELSE response_id

\* _extract_response_id on a ChatResponse: `result.response_id or result.conversation_id`
ExtractResponseId(response_id, conversation_id) ==
    IF Truthy(response_id) THEN response_id ELSE conversation_id

\* Sensitivity variant: any non-empty handle is taken.
StorableAnyHandle(handle) == Truthy(handle)

\* `if new_response_id and new_response_id.startswith(("resp_", "conv_"))`
Storable(handle) == Truthy(handle) /\ HasResponsePrefix(handle)

\* Sensitivity variant: the handle is written under every thread id the
\* store knows, not only the turn's own.
StoreAfterUnderEveryThread(store, agui_thread_id, handle) ==
    IF Truthy(agui_thread_id) /\ Storable(handle)
    THEN [x \in DOMAIN store \cup {agui_thread_id} |-> handle]
    ELSE store

\* The store after a turn for agui_thread_id ended with `handle`.
StoreAfter(store, agui_thread_id, handle) ==
    IF Truthy(agui_thread_id) /\ Storable(handle)
    THEN Put(store, agui_thread_id, handle)
    ELSE store

\* next(context) returned with a ChatResponse in context.result.
NextReturnsResponse(p, response_id, conversation_id) ==
    /\ turn[p].pc = "awaiting_next"
    /\ ~turn[p].is_streaming
    /\ thread_response_store' =
           StoreAfter(thread_response_store, turn[p].agui_thread_id,
                      ExtractResponseId(response_id, conversation_id))
    /\ Finished(p, "returned", ExtractResponseId(response_id, conversation_id),
                <<[response_id |-> response_id, conversation_id |-> conversation_id]>>)
    /\ UNCHANGED <<normVars, filterVars, asstVars, runVars>>

\* next(context) returned and left context.result None.
NextReturnsNothing(p) ==
    /\ turn[p].pc = "awaiting_next"
    /\ Finished(p, "returned", None, <<>>)
    /\ UNCHANGED <<thread_response_store, normVars, filterVars, asstVars, runVars>>

\* Sensitivity variant: a failed call forgets the thread's entry.
NextRaisesForgetsThread(p) ==
    /\ turn[p].pc = "awaiting_next"
    /\ Finished(p, "raised", None, <<>>)
    /\ thread_response_store' =
           [x \in DOMAIN thread_response_store \ {turn[p].agui_thread_id} |->
               thread_response_store[x]]
    /\ UNCHANGED <<normVars, filterVars, asstVars, runVars>>

\* next(context) raised: the exception leaves process().
NextRaises(p) ==
    /\ turn[p].pc = "awaiting_next"
    /\ Finished(p, "raised", None, <<>>)
    /\ UNCHANGED <<thread_response_store, normVars, filterVars, asstVars, runVars>>

\* next(context) returned with a stream in context.result; process() wraps
\* it in _capture_response_id and returns.  The request is sent: the record
\* of the turn keeps only what the wrapper was handed.
NextReturnsStream(p) ==
    /\ turn[p].pc = "awaiting_next"
    /\ turn[p].is_streaming
    /\ turn' = [turn EXCEPT ![p] =
           [IdleTurn EXCEPT
               !.pc = "streaming",
               !.agui_thread_id = turn[p].agui_thread_id,
               !.is_streaming = TRUE,
               !.store_at_entry = turn[p].store_at_entry,
               !.wrapper = "_capture_response_id"]]
    /\ UNCHANGED <<thread_response_store, last_produced, normVars, filterVars, asstVars, runVars>>

\* ------------------------------------------------------------------------
\* _capture_response_id and deduplicate_tool_calls: the stream wrappers
\* ------------------------------------------------------------------------

\* deduplicate_tool_calls(stream, agui_thread_id) is called on a stream.
\* Its filtering of repeated function calls changes only what it yields.
DeduplicateToolCalls(p, agui_thread_id) ==
    /\ turn[p].pc = "idle"
    /\ turn' = [turn EXCEPT ![p] =
           [IdleTurn EXCEPT
               !.pc = "streaming",
               !.agui_thread_id = agui_thread_id,
               !.is_streaming = TRUE,
               !.store_at_entry = thread_response_store,
               !.wrapper = "deduplicate_tool_calls"]]
    /\ UNCHANGED <<thread_response_store, last_produced, normVars, filterVars, asstVars, runVars>>

\* Sensitivity variant: within one update the response_id wins.
TrackResponseIdResponseWins(last, update) ==
    IF Truthy(update.response_id) THEN update.response_id
    ELSE IF Truthy(update.conversation_id) THEN update.conversation_id
    ELSE last

\* `if update.response_id: last = update.response_id`
\* `if update.conversation_id: last = update.conversation_id`
TrackResponseId(last, update) ==
    IF Truthy(update.conversation_id) THEN update.conversation_id
    ELSE IF Truthy(update.response_id) THEN update.response_id
    ELSE last

\* `for content in update.contents: if _is_function_call(content): if tool_name: last = tool_name`
RECURSIVE TrackToolName(_, _)
TrackToolName(last, calls) ==
    IF calls = <<>> THEN last
    ELSE TrackToolName(IF Truthy(Head(calls)) THEN Head(calls) ELSE last, Tail(calls))

\* One iteration of `async for update in stream`, up to the yield.
StreamUpdate(p, update) ==
    /\ turn[p].pc = "streaming"
    /\ turn' = [turn EXCEPT
           ![p].update = <<update>>,
           ![p].last_response_id = TrackResponseId(@, update),
           ![p].last_tool_name =
               IF turn[p].wrapper = "_capture_response_id"
               THEN TrackToolName(@, update.calls) ELSE @]
    /\ UNCHANGED <<thread_response_store, last_produced, normVars, filterVars, asstVars, runVars>>

\* `last_tool_name in FRONTEND_ONLY_TOOLS if last_tool_name else False`
EndedWithFrontend(last_tool_name) ==
    IF Truthy(last_tool_name) THEN last_tool_name \in FRONTEND_ONLY_TOOLS ELSE FALSE

\* Sensitivity variant: nothing is stored after a frontend-only tool call.
StoreAfterCaptureSkipsFrontend(store, agui_thread_id, last_response_id, last_tool_name) ==
    IF EndedWithFrontend(last_tool_name)
    THEN store
    ELSE StoreAfter(store, agui_thread_id, last_response_id)

\* Sensitivity variant: after a frontend-only tool call the thread's entry
\* is dropped.
StoreAfterCaptureClearsOnFrontend(store, agui_thread_id, last_response_id, last_tool_name) ==
    IF EndedWithFrontend(last_tool_name)
    THEN [x \in DOMAIN store \ {agui_thread_id} |-> store[x]]
    ELSE StoreAfter(store, agui_thread_id, last_response_id)

\* The store after _capture_response_id has run past its loop.
StoreAfterCapture(store, agui_thread_id, last_response_id, last_tool_name) ==
    IF EndedWithFrontend(last_tool_name)
    THEN StoreAfter(store, agui_thread_id, last_response_id)
    ELSE StoreAfter(store, agui_thread_id, last_response_id)

\* The store after deduplicate_tool_calls has run past its loop.
StoreAfterDedup(store, agui_thread_id, last_response_id) ==
    StoreAfter(store, agui_thread_id, last_response_id)

\* Sensitivity variant: the wrapper writes only when the store is still as
\* it was when the turn entered.
StreamExhaustedFirstWriteWins(p) ==
    /\ turn[p].pc = "streaming"
    /\ thread_response_store' =
           IF thread_response_store = turn[p].store_at_entry
           THEN StoreAfter(thread_response_store, turn[p].agui_thread_id,
                           turn[p].last_response_id)
           ELSE thread_response_store
    /\ Finished(p, "exhausted", turn[p].last_response_id, <<>>)
    /\ UNCHANGED <<normVars, filterVars, asstVars, runVars>>

\* The upstream stream is exhausted: the code after the loop runs.
StreamExhausted(p) ==
    /\ turn[p].pc = "streaming"
    /\ thread_response_store' =
           IF turn[p].wrapper = "_capture_response_id"
           THEN StoreAfterCapture(thread_response_store, turn[p].agui_thread_id,
                                  turn[p].last_response_id, turn[p].last_tool_name)
           ELSE StoreAfterDedup(thread_response_store, turn[p].agui_thread_id,
                                turn[p].last_response_id)
    /\ Finished(p, "exhausted", turn[p].last_response_id, <<>>)
    /\ UNCHANGED <<normVars, filterVars, asstVars, runVars>>

\* Sensitivity variant: the wrapper stores what it has tracked before the
\* exception leaves it.
StreamRaisesAfterStoring(p) ==
    /\ turn[p].pc = "streaming"
    /\ thread_response_store' =
           StoreAfter(thread_response_store, turn[p].agui_thread_id,
                      turn[p].last_response_id)
    /\ Finished(p, "raised", None, <<>>)
    /\ UNCHANGED <<normVars, filterVars, asstVars, runVars>>

\* The upstream stream raised inside `async for`: the exception leaves the
\* wrapper.
StreamRaises(p) ==
    /\ turn[p].pc = "streaming"
    /\ Finished(p, "raised", None, <<>>)
    /\ UNCHANGED <<thread_response_store, normVars, filterVars, asstVars, runVars>>

\* Sensitivity variant: closing the wrapper stores what it has tracked.
StreamAbandonedAfterStoring(p) ==
    /\ turn[p].pc = "streaming"
    /\ thread_response_store' =
           StoreAfter(thread_response_store, turn[p].agui_thread_id,
                      turn[p].last_response_id)
    /\ Finished(p, "abandoned", None, <<>>)
    /\ UNCHANGED <<normVars, filterVars, asstVars, runVars>>

\* The caller stopped iterating: the wrapper is closed at its yield.
StreamAbandoned(p) ==
    /\ turn[p].pc = "streaming"
    /\ Finished(p, "abandoned", None, <<>>)
    /\ UNCHANGED <<thread_response_store, normVars, filterVars, asstVars, runVars>>

\* The steps of task p.
TurnStep(p) ==
    \/ \E t \in AguiThreadIds, s \in BOOLEAN, c \in InboundConversationIds,
          m \in TurnMessageLists : Process(p, t, s, c, m)
    \/ \E r \in ResponseIds, c \in ConversationIds : NextReturnsResponse(p, r, c)
    \/ NextReturnsNothing(p)
    \/ NextRaises(p)
    \/ NextReturnsStream(p)
    \/ \E t \in AguiThreadIds : DeduplicateToolCalls(p, t)
    \/ \E u \in Updates : StreamUpdate(p, u)
    \/ StreamExhausted(p)
    \/ StreamRaises(p)
    \/ StreamAbandoned(p)

\* Turns one after the other, all run by one task.
NextSequential == \E p \in {1} : TurnStep(p)

\* ------------------------------------------------------------------------
\* AssistantsApiThreadMiddleware
\* ------------------------------------------------------------------------

\* `x.startswith("thread_")`
HasThreadPrefix(x) == StartsWith(x, "thread_")

\* A ChatResponseUpdate as _capture_thread_id reads it: the thread_id
\* attribute (None: absent or empty), conversation_id, response_id, the
\* thread id raw_representation gives under 'thread_id' or thread.id (None:
\* no such dict or key), and the names of the function calls in contents.
AssistantUpdates ==
    [thread_id : {None, "thread_1", "run_1"},
     conversation_id : {None, "thread_2", "resp_1"},
     response_id : {None, "thread_1"},
     raw_thread_id : {None, "thread_2", "run_1"},
     calls : {<<>>, <<"filter_dashboard">>}]

\* A ChatResponse as _extract_thread_id reads it.
AssistantResponses ==
    [thread_id : {None, "", "thread_1", "run_1"},
     conversation_id : {None, "thread_2", "resp_1"}]

IdleAssistantTurn ==
    [pc |-> "idle", agui_thread_id |-> None, is_streaming |-> FALSE,
     conversation_id |-> Unset, filter |-> "none",
     captured_thread_id |-> None, last_tool_name |-> None, outcome |-> "none"]

InitAssistants ==
    /\ agui_to_assistant_thread_store = <<>>
    /\ assistant_turn = IdleAssistantTurn
    /\ clear_calls = <<>>

\* process() up to `await next(context)`: any thread id without an entry,
\* the missing one included, takes the else branch.
AssistantsProcess(agui_thread_id, is_streaming) ==
    /\ assistant_turn.pc = "idle"
    /\ assistant_turn' =
           [IdleAssistantTurn EXCEPT
               !.pc = "awaiting_next",
               !.agui_thread_id = agui_thread_id,
               !.is_streaming = is_streaming,
               !.conversation_id =
                   IF IsContinuing(agui_thread_id, agui_to_assistant_thread_store)
                   THEN agui_to_assistant_thread_store[agui_thread_id]
                   ELSE Unset,
               !.filter =
                   IF IsContinuing(agui_thread_id, agui_to_assistant_thread_store)
                   THEN "_filter_to_new_messages"
                   ELSE "_filter_messages_for_fresh_start"]
    /\ UNCHANGED <<agui_to_assistant_thread_store, clear_calls, normVars, filterVars, mwVars, runVars>>

\* _extract_thread_id on a ChatResponse.
ExtractThreadId(result) ==
    IF Truthy(result.thread_id) THEN result.thread_id
    ELSE IF Truthy(result.conversation_id) /\ HasThreadPrefix(result.conversation_id)
         THEN result.conversation_id
    ELSE None

\* The turn is over.
AssistantFinished(outcome) ==
    assistant_turn' = [IdleAssistantTurn EXCEPT !.outcome = outcome]

\* next(context) returned with a ChatResponse: `if thread_id: store[...] = thread_id`
AssistantsNextReturnsResponse(result) ==
    /\ assistant_turn.pc = "awaiting_next"
    /\ ~assistant_turn.is_streaming
    /\ agui_to_assistant_thread_store' =
           IF Truthy(assistant_turn.agui_thread_id) /\ Truthy(ExtractThreadId(result))
           THEN Put(agui_to_assistant_thread_store, assistant_turn.agui_thread_id,
                    ExtractThreadId(result))
           ELSE agui_to_assistant_thread_store
    /\ AssistantFinished("returned")
    /\ UNCHANGED <<clear_calls, normVars, filterVars, mwVars, runVars>>

\* next(context) returned and left context.result empty: neither branch
\* after `await next(context)` is taken.
AssistantsNextReturnsNothing ==
    /\ assistant_turn.pc = "awaiting_next"
    /\ AssistantFinished("returned")
    /\ UNCHANGED <<agui_to_assistant_thread_store, clear_calls, normVars, filterVars, mwVars, runVars>>

\* next(context) raised.
AssistantsNextRaises ==
    /\ assistant_turn.pc = "awaiting_next"
    /\ AssistantFinished("raised")
    /\ UNCHANGED <<agui_to_assistant_thread_store, clear_calls, normVars, filterVars, mwVars, runVars>>

\* next(context) returned with a stream: process() wraps it in
\* _capture_thread_id.
AssistantsNextReturnsStream ==
    /\ assistant_turn.pc = "awaiting_next"
    /\ assistant_turn.is_streaming
    /\ assistant_turn' = [assistant_turn EXCEPT !.pc = "streaming"]
    /\ UNCHANGED <<agui_to_assistant_thread_store, clear_calls, normVars, filterVars, mwVars, runVars>>

\* `new_thread_id` after the if/elif chain over the sources of one update.
NewThreadId(update) ==
    IF Truthy(update.thread_id) THEN update.thread_id
    ELSE IF Truthy(update.conversation_id) /\ HasThreadPrefix(update.conversation_id)
         THEN update.conversation_id
    ELSE IF Truthy(update.response_id) /\ HasThreadPrefix(update.response_id)
         THEN update.response_id
    ELSE update.raw_thread_id

\* `captured_thread_id` after the update: replaced by any non-empty
\* new_thread_id.
CaptureThreadId(captured, update) ==
    IF Truthy(NewThreadId(update)) THEN NewThreadId(update) ELSE captured

\* One iteration of `async for update in stream` in _capture_thread_id.
AssistantsStreamUpdate(update) ==
    /\ assistant_turn.pc = "streaming"
    /\ assistant_turn' = [assistant_turn EXCEPT
           !.captured_thread_id = CaptureThreadId(@, update),
           !.last_tool_name = TrackToolName(@, update.calls)]
    /\ UNCHANGED <<agui_to_assistant_thread_store, clear_calls, normVars, filterVars, mwVars, runVars>>

\* The stream is exhausted: `if agui_thread_id and captured_thread_id:
\* store[agui_thread_id] = captured_thread_id`, frontend tool or not.
AssistantsStreamExhausted ==
    /\ assistant_turn.pc = "streaming"
    /\ agui_to_assistant_thread_store' =
           IF Truthy(assistant_turn.agui_thread_id)
              /\ Truthy(assistant_turn.captured_thread_id)
           THEN Put(agui_to_assistant_thread_store, assistant_turn.agui_thread_id,
                    assistant_turn.captured_thread_id)
           ELSE agui_to_assistant_thread_store
    /\ AssistantFinished("exhausted")
    /\ UNCHANGED <<clear_calls, normVars, filterVars, mwVars, runVars>>

\* The stream raised, or the caller stopped iterating.
AssistantsStreamEndsEarly ==
    /\ assistant_turn.pc = "streaming"
    /\ AssistantFinished("raised")
    /\ UNCHANGED <<agui_to_assistant_thread_store, clear_calls, normVars, filterVars, mwVars, runVars>>

\* Sensitivity variant: the call resets the whole store.
ClearedStoreAll(store, agui_thread_id) == <<>>

\* The store after `if agui_thread_id in store: del store[agui_thread_id]`.
ClearedStore(store, agui_thread_id) ==
    [x \in DOMAIN store \ {agui_thread_id} |-> store[x]]

\* What clear_thread_mapping returns.
ClearReturns(store, agui_thread_id) == HasKey(store, agui_thread_id)

\* clear_thread_mapping(agui_thread_id): a synchronous module function, so
\* it runs between any two steps of a turn.
ClearThreadMapping(agui_thread_id) ==
    /\ Len(clear_calls) < MaxClearCalls
    /\ agui_to_assistant_thread_store' =
           ClearedStore(agui_to_assistant_thread_store, agui_thread_id)
    /\ clear_calls' = Append(clear_calls,
           [agui_thread_id |-> agui_thread_id,
            returned |-> ClearReturns(agui_to_assistant_thread_store, agui_thread_id)])
    /\ UNCHANGED <<assistant_turn, normVars, filterVars, mwVars, runVars>>

NextAssistants ==
    \/ \E t \in AguiThreadIds, s \in BOOLEAN : AssistantsProcess(t, s)
    \/ \E r \in AssistantResponses : AssistantsNextReturnsResponse(r)
    \/ AssistantsNextReturnsNothing
    \/ AssistantsNextRaises
    \/ AssistantsNextReturnsStream
    \/ \E u \in AssistantUpdates : AssistantsStreamUpdate(u)
    \/ AssistantsStreamExhausted
    \/ AssistantsStreamEndsEarly
    \/ \E t \in ThreadIds : ClearThreadMapping(t)

\* What the upstream reports to task p when turns overlap: each task's
\* upstream call has a valid handle of its own ("resp_1" for task 1, "resp_2"
\* for task 2), or reports an id without a recognised prefix, or none.
OwnHandle(p) == IF p = 1 THEN "resp_1" ELSE "resp_2"
RaceResponseIds(p) == {OwnHandle(p), "msg_1"}
RaceUpdates(p) ==
    {[response_id |-> r, conversation_id |-> None, calls |-> <<>>] :
        r \in {None, OwnHandle(p), "msg_1"}}
RaceMessages == <<Message("user", <<TextContent>>, <<>>)>>

\* The steps of task p while another task's turn may be under way.
RaceStep(p) ==
    \/ \E t \in ThreadIds, s \in BOOLEAN : Process(p, t, s, Unset, RaceMessages)
    \/ \E r \in RaceResponseIds(p) : NextReturnsResponse(p, r, None)
    \/ NextReturnsNothing(p)
    \/ NextRaises(p)
    \/ NextReturnsStream(p)
    \/ \E u \in RaceUpdates(p) : StreamUpdate(p, u)
    \/ StreamExhausted(p)
    \/ StreamRaises(p)
    \/ StreamAbandoned(p)

\* Two tasks on one event loop: between two awaits a task runs alone, so
\* the turns interleave at the steps above.
NextOverlapping == \E p \in Procs : RaceStep(p)

\* What the Assistants upstream reports while both middlewares serve turns.
StoreResponses == {[thread_id |-> t, conversation_id |-> None] : t \in {None, "thread_1"}}
StoreUpdates ==
    {[thread_id |-> t, conversation_id |-> None, response_id |-> None,
      raw_thread_id |-> None, calls |-> <<>>] : t \in {None, "thread_1"}}

\* The steps of a turn through AssistantsApiThreadMiddleware, and the calls
\* of clear_thread_mapping, in a process that also runs
\* ResponsesApiThreadMiddleware.
AssistantStoreStep ==
    \/ \E t \in {"t1"}, s \in BOOLEAN : AssistantsProcess(t, s)
    \/ \E r \in StoreResponses : AssistantsNextReturnsResponse(r)
    \/ AssistantsNextReturnsNothing
    \/ AssistantsNextRaises
    \/ AssistantsNextReturnsStream
    \/ \E u \in StoreUpdates : AssistantsStreamUpdate(u)
    \/ AssistantsStreamExhausted
    \/ AssistantsStreamEndsEarly
    \/ \E t \in ThreadIds : ClearThreadMapping(t)

\* The steps of a turn through ResponsesApiThreadMiddleware in that
\* process, deduplicate_tool_calls included.
ResponseStoreStep(p) ==
    \/ \E t \in {"t1"}, s \in BOOLEAN : Process(p, t, s, Unset, RaceMessages)
    \/ \E r \in {OwnHandle(p)} : NextReturnsResponse(p, r, None)
    \/ NextReturnsNothing(p)
    \/ NextRaises(p)
    \/ NextReturnsStream(p)
    \/ \E t \in {"t2"} : DeduplicateToolCalls(p, t)
    \/ \E u \in RaceUpdates(p) : StreamUpdate(p, u)
    \/ StreamExhausted(p)
    \/ StreamRaises(p)
    \/ StreamAbandoned(p)

\* Both stores of one process: turns of either middleware, one task each.
NextStores ==
    \/ \E p \in {1} : ResponseStoreStep(p)
    \/ AssistantStoreStep

\* ------------------------------------------------------------------------
\* Specifications
\* ------------------------------------------------------------------------

\* The state after construction: the locals of a patched_run_agent call as
\* initialised, an empty store, no turn and no filter under way.
Init == InitNormalizer /\ IdleFilter /\ InitMiddleware /\ InitAssistants /\ IdleRun

\* The same, with a message list about to be filtered.
InitWithMessages ==
    InitNormalizer /\ InitFilter /\ InitMiddleware /\ InitAssistants /\ IdleRun

\* The same as Init, at a call of patched_run_agent with some input_data.
InitWithInputData ==
    InitNormalizer /\ IdleFilter /\ InitMiddleware /\ InitAssistants /\ InitRun

\* patched_run_agent fed a text-centred event stream
SpecText == Init /\ [][NextText]_vars

\* patched_run_agent fed a tool-centred event stream
SpecTool == Init /\ [][NextTool]_vars

\* a message filter run on a message list
SpecFilter == InitWithMessages /\ [][NextFilter]_vars

\* chat turns through ResponsesApiThreadMiddleware, one at a time
SpecTurns == Init /\ [][NextSequential]_vars

\* chat turns through AssistantsApiThreadMiddleware
SpecAssistants == Init /\ [][NextAssistants]_vars

\* patched_run_agent up to the setting of the thread id
SpecRun == InitWithInputData /\ [][NextRun]_vars

\* both middlewares and their stores in one process
SpecStores == Init /\ [][NextStores]_vars

\* chat turns of two tasks that overlap
SpecOverlap == Init /\ [][NextOverlapping]_vars

\* ------------------------------------------------------------------------
\* Reading the recorded streams
\* ------------------------------------------------------------------------

\* Input event number k was yielded.
Emitted(k) == \E o \in 1..Len(out) : out[o].src = k

\* Number of yielded events of type t for message id m.
CountOut(t, m) ==
    Cardinality({o \in 1..Len(out) : out[o].event.type = t /\ out[o].event.message_id = m})

\* Positions of RUN_FINISHED in the input.
RunFinishedAt == {k \in 1..Len(inp) : inp[k].type = "RUN_FINISHED"}

LastInputIsRunFinished == Len(inp) > 0 /\ inp[Len(inp)].type = "RUN_FINISHED"

\* RUN_FINISHED, if present, is the last input event.
RunFinishedOnlyLast == \A k \in RunFinishedAt : k = Len(inp)

ToolCallStartsOut == {o \in 1..Len(out) : out[o].event.type = "TOOL_CALL_START"}

ToolFollowUps == {"TOOL_CALL_ARGS", "TOOL_CALL_END", "TOOL_CALL_RESULT"}

\* ------------------------------------------------------------------------
\* C1  After an input stream that ends with RUN_FINISHED, every message id
\*     has as many TEXT_MESSAGE_START events yielded as TEXT_MESSAGE_END
\*     events yielded (natural and injected).  Stated here for the non-empty
\*     message ids, where the `if msg_id:` test plays no part; the claim
\*     itself covers every id.  The loop violates it: a message id that is
\*     started again while still open is yielded two starts and one end.
\* ------------------------------------------------------------------------
C1_StartsEqualEnds ==
    LastInputIsRunFinished =>
        \A m \in MsgIds :
            Truthy(m) => CountOut("TEXT_MESSAGE_START", m) = CountOut("TEXT_MESSAGE_END", m)

\* ------------------------------------------------------------------------
\* C2  When the input holds exactly one RUN_FINISHED and it is the last
\*     input event, the last yielded event is that RUN_FINISHED and every
\*     injected TEXT_MESSAGE_END stands before it.
\* ------------------------------------------------------------------------
C2_RunFinishedLast ==
    (LastInputIsRunFinished /\ Cardinality(RunFinishedAt) = 1) =>
        /\ Len(out) > 0
        /\ out[Len(out)].event.type = "RUN_FINISHED"
        /\ out[Len(out)].src = Len(inp)
        /\ \A o \in 1..Len(out) : out[o].src = 0 => o < Len(out)

\* A finished stream in which an end was injected for an open message.
C2_Witness ==
    /\ LastInputIsRunFinished
    /\ Cardinality(RunFinishedAt) = 1
    /\ \E o \in 1..Len(out) : out[o].src = 0

\* ------------------------------------------------------------------------
\* C3  (as claimed) While RUN_FINISHED, if present, is the last input event,
\*     no two yielded TOOL_CALL_START events share a tool_call_id and no two
\*     share a tool_call_name.
\* ------------------------------------------------------------------------
C3_Original ==
    RunFinishedOnlyLast =>
        \A o1, o2 \in ToolCallStartsOut :
            o1 # o2 =>
                /\ out[o1].event.tool_call_id # out[o2].event.tool_call_id
                /\ out[o1].event.tool_call_name # out[o2].event.tool_call_name

\* C3  (amended) ... no two yielded TOOL_CALL_START events share a non-empty
\*     tool_call_id and no two share a tool_call_name.
C3_NoDuplicateToolCallStart ==
    RunFinishedOnlyLast =>
        \A o1, o2 \in ToolCallStartsOut :
            o1 # o2 =>
                /\ out[o1].event.tool_call_name # out[o2].event.tool_call_name
                /\ Truthy(out[o1].event.tool_call_id) =>
                       out[o1].event.tool_call_id # out[o2].event.tool_call_id

\* Two tool calls were yielded and a further TOOL_CALL_START was held back.
C3_Witness ==
    /\ RunFinishedOnlyLast
    /\ Cardinality(ToolCallStartsOut) = 2
    /\ \E k \in 1..Len(inp) : inp[k].type = "TOOL_CALL_START" /\ ~Emitted(k)

\* ------------------------------------------------------------------------
\* C4  Two TOOL_CALL_START events i < j of one run (no RUN_FINISHED up to j)
\*     with the same tool name and different call ids.
\* ------------------------------------------------------------------------
SameNameStarts(i, j) ==
    /\ i < j
    /\ inp[i].type = "TOOL_CALL_START"
    /\ inp[j].type = "TOOL_CALL_START"
    /\ inp[i].tool_call_name = inp[j].tool_call_name
    /\ inp[i].tool_call_id # inp[j].tool_call_id
    /\ \A r \in RunFinishedAt : r > j

\* Input k is an args/end/result event carrying the call id of input j.
FollowUpOf(k, j) ==
    /\ inp[k].type \in ToolFollowUps
    /\ inp[k].tool_call_id = inp[j].tool_call_id

\* C4  (as claimed) Only the first of the two starts is yielded, and every
\*     TOOL_CALL_ARGS, TOOL_CALL_END and TOOL_CALL_RESULT carrying the second
\*     call id is held back.  Read in the claim's favour: the first start
\*     was yielded, the second call id is non-empty, the run is not finished
\*     before the last event, and only events after the second start count.
C4_Original ==
    \A i, j \in 1..Len(inp) :
        (/\ SameNameStarts(i, j)
         /\ Emitted(i)
         /\ Truthy(inp[j].tool_call_id)
         /\ RunFinishedOnlyLast) =>
            /\ ~Emitted(j)
            /\ \A k \in (j + 1)..Len(inp) : FollowUpOf(k, j) => ~Emitted(k)

\* Input k lies in the suppression window opened by the start j: no
\* TOOL_CALL_RESULT for that id and no RUN_FINISHED between j and k.
InSuppressionWindow(k, j) ==
    /\ k > j
    /\ \A r \in (j + 1)..(k - 1) :
           /\ inp[r].type # "RUN_FINISHED"
           /\ ~(inp[r].type = "TOOL_CALL_RESULT" /\ inp[r].tool_call_id = inp[j].tool_call_id)

\* C4  (amended) If the first of the two starts was yielded and no
\*     RUN_FINISHED lies between them, the second is not yielded; and when
\*     the second call id is non-empty, every args/end/result event carrying
\*     it that arrives after the second start, up to and including the first
\*     TOOL_CALL_RESULT for it (and before any RUN_FINISHED), is held back.
C4_DuplicateNameSuppressed ==
    \A i, j \in 1..Len(inp) :
        (/\ i < j
         /\ inp[i].type = "TOOL_CALL_START"
         /\ inp[j].type = "TOOL_CALL_START"
         /\ inp[i].tool_call_name = inp[j].tool_call_name
         /\ inp[i].tool_call_id # inp[j].tool_call_id
         /\ Emitted(i)
         /\ \A r \in RunFinishedAt : r < i \/ r > j) =>
            /\ ~Emitted(j)
            /\ Truthy(inp[j].tool_call_id) =>
                   \A k \in (j + 1)..Len(inp) :
                       (FollowUpOf(k, j) /\ InSuppressionWindow(k, j)) => ~Emitted(k)

\* A duplicate by name was held back together with a follow-up event and
\* the TOOL_CALL_RESULT of its call id.
C4_Witness ==
    \E i, j, k, l \in 1..Len(inp) :
        /\ SameNameStarts(i, j)
        /\ Emitted(i)
        /\ Truthy(inp[j].tool_call_id)
        /\ j < k /\ k < l
        /\ inp[k].type \in {"TOOL_CALL_ARGS", "TOOL_CALL_END"}
        /\ inp[l].type = "TOOL_CALL_RESULT"
        /\ FollowUpOf(k, j) /\ FollowUpOf(l, j)
        /\ ~Emitted(j) /\ ~Emitted(k) /\ ~Emitted(l)

\* ------------------------------------------------------------------------
\* Reading the middleware's state
\* ------------------------------------------------------------------------

\* Task p has entered process() for a non-empty thread id and is at
\* `await next(context)`.
AtUpstreamCall(p) ==
    turn[p].pc = "awaiting_next" /\ Truthy(turn[p].agui_thread_id)

\* The last finished turn on thread t produced a prefix-valid handle.
ProducedValid(t) == Truthy(last_produced[t]) /\ HasResponsePrefix(last_produced[t])

\* ------------------------------------------------------------------------
\* C5  Every value held in _thread_response_store starts with "resp_" or
\*     "conv_", whatever handles the upstream reported and whichever write
\*     site (non-streaming extraction, _capture_response_id,
\*     deduplicate_tool_calls) handled them.
\* ------------------------------------------------------------------------
C5_StoredHandlesHavePrefix ==
    \A t \in DOMAIN thread_response_store :
        HasResponsePrefix(thread_response_store[t])

\* A thread holds a handle although its latest turn produced a handle
\* without a recognised prefix.
C5_Witness ==
    \E t \in ThreadIds :
        /\ HasKey(thread_response_store, t)
        /\ Truthy(last_produced[t])
        /\ ~HasResponsePrefix(last_produced[t])

C7_EntryResolution ==
    \A p \in Procs :
        AtUpstreamCall(p) =>
            /\ thread_response_store = turn[p].store_at_entry
            /\ IF HasKey(turn[p].store_at_entry, turn[p].agui_thread_id)
               THEN /\ turn[p].conversation_id =
                           turn[p].store_at_entry[turn[p].agui_thread_id]
                    /\ turn[p].filter = "_filter_messages_for_api"
                    /\ turn[p].messages = FilterMessagesForApi(turn[p].messages_in)
               ELSE /\ turn[p].conversation_id = None
                    /\ turn[p].filter = "_filter_messages_for_fresh_start"
                    /\ turn[p].messages = FilterMessagesForFreshStart(turn[p].messages_in)

\* A first turn on thread t2 while t1 has a stored handle: the options carry
\* None and the fresh-mode filter removed a message.
C7_Witness ==
    /\ AtUpstreamCall(1)
    /\ turn[1].agui_thread_id = "t2"
    /\ HasKey(thread_response_store, "t1")
    /\ ~HasKey(thread_response_store, "t2")
    /\ turn[1].conversation_id = None
    /\ Len(turn[1].messages) < Len(turn[1].messages_in)

\* ------------------------------------------------------------------------
\* Reading the filters' results
\* ------------------------------------------------------------------------

ContinuingFilters == {"_filter_messages_for_api", "_filter_to_new_messages"}

UserPositions(messages) == {i \in 1..Len(messages) : messages[i].role = "user"}

Highest(S) == CHOOSE i \in S : \A j \in S : j <= i

\* The content items of a message, under either attribute.
ItemsOf(msg) ==
    {msg.contents[k] : k \in 1..Len(msg.contents)}
    \cup {msg.content[k] : k \in 1..Len(msg.content)}

\* An assistant message containing a function call, a function result or
\* call_id-bearing content.
ToolAssistant(msg) ==
    /\ msg.role = "assistant"
    /\ \E c \in ItemsOf(msg) :
           c.type \in {"function_call", "function_result"} \/ c.call_id \notin {None, ""}

NotToolMessage(msg) == msg.role # "tool" /\ ~ToolAssistant(msg)

\* ------------------------------------------------------------------------
\* C8  Continuing-mode filter: a non-empty message list whose last message
\*     has role tool becomes exactly that one last message.
\* ------------------------------------------------------------------------
C8_ToolResultOnly ==
    (/\ ctx_filter \in ContinuingFilters
     /\ ctx_original # <<>>
     /\ ctx_original[Len(ctx_original)].role = "tool") =>
        ctx_messages = <<ctx_original[Len(ctx_original)]>>

\* A longer history holding a user message and ending in a tool result
\* went through _filter_messages_for_api.
C8_Witness ==
    /\ ctx_filter = "_filter_messages_for_api"
    /\ Len(ctx_original) = 3
    /\ ctx_original[Len(ctx_original)].role = "tool"
    /\ UserPositions(ctx_original) # {}

\* ------------------------------------------------------------------------
\* C9  Continuing-mode filter: a non-empty message list whose last message
\*     is not a tool message and that holds a user message becomes exactly
\*     one message, the user message of highest index.
\* ------------------------------------------------------------------------
C9_LastUserOnly ==
    (/\ ctx_filter = "_filter_messages_for_api"
     /\ ctx_original # <<>>
     /\ ctx_original[Len(ctx_original)].role # "tool"
     /\ UserPositions(ctx_original) # {}) =>
        ctx_messages = <<ctx_original[Highest(UserPositions(ctx_original))]>>

\* Two different user messages, the later one followed by an assistant
\* message, went through _filter_messages_for_api.
C9_Witness ==
    /\ ctx_filter = "_filter_messages_for_api"
    /\ Len(ctx_original) = 3
    /\ ctx_original[1].role = "user"
    /\ ctx_original[2].role = "user"
    /\ ctx_original[1] # ctx_original[2]
    /\ ctx_original[3].role = "assistant"

\* ------------------------------------------------------------------------
\* C10 Fresh-mode filter: the result is the subsequence, in the original
\*     order, of the messages that are neither tool messages nor assistant
\*     messages containing a function call, a function result or
\*     call_id-bearing content; a list without such messages is unchanged.
\* ------------------------------------------------------------------------
C10_FreshKeepsNonTool ==
    ctx_filter = "_filter_messages_for_fresh_start" =>
        /\ ctx_messages = SelectSeq(ctx_original, NotToolMessage)
        /\ (\A i \in 1..Len(ctx_original) : NotToolMessage(ctx_original[i])) =>
               ctx_messages = ctx_original

\* A history with a kept message between a dropped assistant tool call and
\* a dropped tool message went through the fresh-start filter.
C10_Witness ==
    /\ ctx_filter = "_filter_messages_for_fresh_start"
    /\ Len(ctx_original) = 3
    /\ ToolAssistant(ctx_original[1])
    /\ ctx_original[2].role \in {"user", "system"}
    /\ ctx_original[3].role = "tool"
    /\ Len(ctx_messages) = 1

\* ------------------------------------------------------------------------
\* Reading the end of a turn
\* ------------------------------------------------------------------------

\* A handle that is present and starts with "resp_" or "conv_".
PrefixValid(h) == Truthy(h) /\ HasResponsePrefix(h)

\* The store with thread id t mapped to handle h.
Mapped(store, t, h) == [x \in DOMAIN store \cup {t} |-> IF x = t THEN h ELSE store[x]]

\* In this step, task p's process() returns from a non-streaming turn for a
\* non-empty thread id with a ChatResponse in context.result.
NonStreamingReturn(p) ==
    /\ turn[p].pc = "awaiting_next"
    /\ ~turn[p].is_streaming
    /\ Truthy(turn[p].agui_thread_id)
    /\ turn'[p].pc = "idle"
    /\ turn'[p].outcome = "returned"
    /\ turn'[p].result # <<>>

\* response_id if present, otherwise conversation_id.
PrimaryElseFallback(r) ==
    IF r.response_id \notin {None, ""} THEN r.response_id ELSE r.conversation_id

\* ------------------------------------------------------------------------
\* C11 Non-streaming turn with a non-empty thread id: the handle extracted
\*     is the response's response_id if present, otherwise its
\*     conversation_id; if it is prefix-valid the store maps the thread id
\*     to it when process() returns, otherwise the store is unchanged.
\* ------------------------------------------------------------------------
C11_NonStreamingStore ==
    [][\A p \in Procs :
          NonStreamingReturn(p) =>
              /\ last_produced'[turn[p].agui_thread_id] =
                     PrimaryElseFallback(turn'[p].result[1])
              /\ thread_response_store' =
                     IF PrefixValid(PrimaryElseFallback(turn'[p].result[1]))
                     THEN Mapped(thread_response_store, turn[p].agui_thread_id,
                                 PrimaryElseFallback(turn'[p].result[1]))
                     ELSE thread_response_store]_vars

\* A response with an empty response_id and a valid conversation_id was
\* returned and the store holds the conversation_id.
C11_Witness ==
    /\ turn[1].outcome = "returned"
    /\ turn[1].result # <<>>
    /\ turn[1].result[1].response_id = ""
    /\ turn[1].result[1].conversation_id = "conv_1"
    /\ \E t \in ThreadIds :
           /\ last_produced[t] = "conv_1"
           /\ HasKey(thread_response_store, t)
           /\ thread_response_store[t] = "conv_1"

\* ------------------------------------------------------------------------
\* Reading a wrapped stream
\* ------------------------------------------------------------------------

\* The handle an update carries: its conversation_id if present, else its
\* response_id if present, else none.
Carried(u) ==
    IF u.conversation_id \notin {None, ""} THEN u.conversation_id
    ELSE IF u.response_id \notin {None, ""} THEN u.response_id
    ELSE None

\* In this step task p's wrapper yields one more update.
YieldsUpdate(p) ==
    turn[p].pc = "streaming" /\ turn'[p].pc = "streaming" /\ turn'[p] # turn[p]

\* In this step task p's wrapper runs past its loop: the stream is exhausted.
Exhausts(p) ==
    turn[p].pc = "streaming" /\ turn'[p].pc = "idle" /\ turn'[p].outcome = "exhausted"

\* ------------------------------------------------------------------------
\* C12 Streaming turn: the store is not written when the wrapper is set up
\*     nor between updates, only once the stream is exhausted; the value
\*     written is the last handle observed over the stream (within one
\*     update a conversation_id overrides a response_id); and when no
\*     update carried a handle the store is not written.
\* ------------------------------------------------------------------------
C12_WriteAtStreamEnd ==
    [][\A p \in Procs :
          /\ (turn[p].pc # "streaming" /\ turn'[p].pc = "streaming") =>
                 /\ thread_response_store' = thread_response_store
                 /\ turn'[p].last_response_id = None
          /\ YieldsUpdate(p) =>
                 /\ thread_response_store' = thread_response_store
                 /\ turn'[p].last_response_id =
                        IF Carried(turn'[p].update[1]) # None
                        THEN Carried(turn'[p].update[1])
                        ELSE turn[p].last_response_id
          /\ Exhausts(p) =>
                 /\ last_produced' =
                        IF turn[p].agui_thread_id \in ThreadIds
                        THEN [last_produced EXCEPT
                                 ![turn[p].agui_thread_id] = turn[p].last_response_id]
                        ELSE last_produced
                 /\ thread_response_store' =
                        IF Truthy(turn[p].agui_thread_id) /\ PrefixValid(turn[p].last_response_id)
                        THEN Mapped(thread_response_store, turn[p].agui_thread_id,
                                    turn[p].last_response_id)
                        ELSE thread_response_store]_vars

\* _capture_response_id has observed a valid handle, is suspended at an
\* update that carries none, and the store has no entry for the thread yet.
C12_Witness ==
    /\ turn[1].pc = "streaming"
    /\ turn[1].wrapper = "_capture_response_id"
    /\ turn[1].agui_thread_id = "t1"
    /\ turn[1].update # <<>>
    /\ Carried(turn[1].update[1]) = None
    /\ turn[1].last_response_id = "conv_1"
    /\ ~HasKey(thread_response_store, "t1")

C14_FailureLeavesStore ==
    [][\A p \in Procs :
          /\ (turn[p].pc \in {"awaiting_next", "streaming"} /\ turn'[p].outcome = "raised"
                 /\ turn'[p].pc = "idle") =>
                 /\ thread_response_store' = thread_response_store
                 /\ thread_response_store' = turn[p].store_at_entry
          /\ (turn'[p].pc = "awaiting_next" /\ turn[p].pc # "awaiting_next") =>
                 turn[p].pc = "idle"]_vars

\* The upstream raised in the middle of a stream on which a valid handle had
\* been observed, for a thread that has no entry in the store.
C14_Witness ==
    /\ turn[1].outcome = "raised"
    /\ PrefixValid(turn[1].last_response_id)
    /\ thread_response_store = <<>>

\* ------------------------------------------------------------------------
\* C15 Cancellation: when the caller stops consuming the wrapped stream
\*     before it is exhausted, the store write that waits for the end of the
\*     stream does not occur for that turn, whatever handles the consumed
\*     updates carried.
\* ------------------------------------------------------------------------
C15_AbandonedStreamNotStored ==
    [][\A p \in Procs :
          (turn[p].pc = "streaming" /\ turn'[p].pc = "idle"
             /\ turn'[p].outcome = "abandoned") =>
              /\ thread_response_store' = thread_response_store
              /\ thread_response_store' = turn[p].store_at_entry]_vars

\* A stream was abandoned after a valid handle had been observed on it, and
\* the store has no entry at all.
C15_Witness ==
    /\ turn[1].outcome = "abandoned"
    /\ PrefixValid(turn[1].last_response_id)
    /\ thread_response_store = <<>>

\* ------------------------------------------------------------------------
\* Reading overlapping turns
\* ------------------------------------------------------------------------

\* In this step task p enters process() and reaches the upstream call.
Enters(p) == turn[p].pc = "idle" /\ turn'[p].pc = "awaiting_next"

\* In this step task p's turn completes: process() returns without a
\* stream, or its wrapper runs past the loop.
Completes(p) ==
    /\ turn[p].pc \in {"awaiting_next", "streaming"}
    /\ turn'[p].pc = "idle"
    /\ turn'[p].outcome \in {"returned", "exhausted"}

\* The handle the turn of p that ends in this step produced.
ProducedNow(p) == last_produced'[turn[p].agui_thread_id]

\* ------------------------------------------------------------------------
\* C16 Turns of two tasks overlap in any interleaving.  Each turn resolves
\*     fresh or continuing from the store as it is at its own entry.  A
\*     turn that completes with a prefix-valid handle writes it over
\*     whatever the store holds for the thread, so the store holds the
\*     handle of the turn that wrote last, whichever turn started first;
\*     the store changes in no other way and never holds a value that no
\*     turn produced.
\* ------------------------------------------------------------------------
C16_LastWriteWins ==
    [][/\ \A p \in Procs :
             Enters(p) =>
                 /\ turn'[p].store_at_entry = thread_response_store
                 /\ turn'[p].conversation_id =
                        IF HasKey(thread_response_store, turn'[p].agui_thread_id)
                        THEN thread_response_store[turn'[p].agui_thread_id]
                        ELSE None
                 /\ turn'[p].filter =
                        IF HasKey(thread_response_store, turn'[p].agui_thread_id)
                        THEN "_filter_messages_for_api"
                        ELSE "_filter_messages_for_fresh_start"
       /\ \A p \in Procs :
             (Completes(p) /\ PrefixValid(ProducedNow(p))) =>
                 thread_response_store' =
                     Mapped(thread_response_store, turn[p].agui_thread_id, ProducedNow(p))
       /\ thread_response_store' # thread_response_store =>
             \E p \in Procs : Completes(p) /\ PrefixValid(ProducedNow(p))
       /\ \A t \in DOMAIN thread_response_store' :
             thread_response_store'[t] \in {OwnHandle(q) : q \in Procs}
       /\ \A t \in ThreadIds :
             (Truthy(last_produced'[t]) /\ HasResponsePrefix(last_produced'[t])) =>
                 /\ HasKey(thread_response_store', t)
                 /\ thread_response_store'[t] = last_produced'[t]]_vars

\* Task 1 entered a streaming turn on t1 when the store was empty and has
\* observed its handle; meanwhile task 2 completed a stream and the store
\* maps t1 to task 2's handle.
C16_Witness ==
    /\ turn[1].pc = "streaming"
    /\ turn[1].agui_thread_id = "t1"
    /\ turn[1].store_at_entry = <<>>
    /\ turn[1].last_response_id = "resp_1"
    /\ turn[2].pc = "idle"
    /\ turn[2].outcome = "exhausted"
    /\ DOMAIN thread_response_store = {"t1"}
    /\ thread_response_store["t1"] = "resp_2"

\* The entry of thread id t in a store (None: no entry).
EntryOf(store, t) == IF HasKey(store, t) THEN store[t] ELSE None

\* ------------------------------------------------------------------------
\* C17 Turns of two tasks overlap in any interleaving.  The store entry of
\*     a thread id changes only in a step in which a turn for that same
\*     thread id completes; a turn keeps, from its entry to its end, the
\*     thread id it read on entry, and that is the id it writes under.
\* ------------------------------------------------------------------------
C17_ThreadsIndependent ==
    [][/\ \A t \in ThreadIds :
             EntryOf(thread_response_store', t) # EntryOf(thread_response_store, t) =>
                 \E p \in Procs :
                     /\ Completes(p)
                     /\ turn[p].agui_thread_id = t
                     /\ EntryOf(thread_response_store', t) = ProducedNow(p)
       /\ \A p \in Procs :
             (turn[p].pc # "idle" /\ turn'[p].pc # "idle") =>
                 turn'[p].agui_thread_id = turn[p].agui_thread_id]_vars

\* Task 1 is in a streaming turn on t1 that it entered with an empty store
\* and has observed its handle; meanwhile task 2 completed a stream for t2,
\* and the store has an entry for t2 only.
C17_Witness ==
    /\ turn[1].pc = "streaming"
    /\ turn[1].agui_thread_id = "t1"
    /\ turn[1].store_at_entry = <<>>
    /\ turn[1].last_response_id = "resp_1"
    /\ turn[2].pc = "idle"
    /\ turn[2].outcome = "exhausted"
    /\ DOMAIN thread_response_store = {"t2"}
    /\ thread_response_store["t2"] = "resp_2"

\* ------------------------------------------------------------------------
\* Reading one iteration of the event loop
\* ------------------------------------------------------------------------

\* In this step the loop reads an input event of type t.
Reads(t) == Len(inp') = Len(inp) + 1 /\ inp'[Len(inp')].type = t

\* ------------------------------------------------------------------------
\* C18 A MESSAGES_SNAPSHOT input event is never yielded, in any state and
\*     at any position of the stream, and reading it changes no state of
\*     the loop: pending start, open messages, messages with content,
\*     yielded tool call ids and names, suppressed ids.
\* ------------------------------------------------------------------------
C18_SnapshotSuppressed ==
    [][/\ \A o \in 1..Len(out') : out'[o].event.type # "MESSAGES_SNAPSHOT"
       /\ Reads("MESSAGES_SNAPSHOT") =>
             /\ out' = out
             /\ pending_text_start' = pending_text_start
             /\ emitted_messages' = emitted_messages
             /\ messages_with_content' = messages_with_content
             /\ emitted_tool_calls' = emitted_tool_calls
             /\ emitted_tool_names' = emitted_tool_names
             /\ suppressed_tool_ids' = suppressed_tool_ids]_vars

\* A snapshot was read while a start was buffered, a message was open and a
\* tool call had been yielded.
C18_Witness ==
    /\ Len(inp) > 0
    /\ inp[Len(inp)].type = "MESSAGES_SNAPSHOT"
    /\ pending_text_start # <<>>
    /\ emitted_messages # {}
    /\ emitted_tool_names # {}

\* ------------------------------------------------------------------------
\* C19 Once RUN_FINISHED has been yielded, no further event is yielded for
\*     that stream, whatever input events arrive after it.  The loop
\*     violates it: the RUN_FINISHED branch ends with `continue`, so the
\*     events that follow are read and handled like any others.
\* ------------------------------------------------------------------------
C19_NothingAfterRunFinished ==
    \A o \in 1..Len(out) : out[o].event.type = "RUN_FINISHED" => o = Len(out)

\* ------------------------------------------------------------------------
\* C20 AssistantsApiThreadMiddleware never writes to its store a handle
\*     that does not start with "thread_", whichever field the handle came
\*     from and for streaming and non-streaming turns alike.  The code
\*     violates it: the thread_id attribute of an update or response and
\*     the thread id found in raw_representation are stored unchecked.
\* ------------------------------------------------------------------------
C20_AssistantHandlesHavePrefix ==
    \A t \in DOMAIN agui_to_assistant_thread_store :
        HasThreadPrefix(agui_to_assistant_thread_store[t])

\* ------------------------------------------------------------------------
\* C21 clear_thread_mapping(id) returns true exactly when the store held an
\*     entry for id when it was called; after the call there is no entry
\*     for id and every other entry is as before; for an absent id the
\*     store does not change and the call returns false, so a call directly
\*     after another for the same id returns false.
\* ------------------------------------------------------------------------

\* This step is a call of clear_thread_mapping(id).
ClearCalled(id) ==
    /\ Len(clear_calls') = Len(clear_calls) + 1
    /\ clear_calls'[Len(clear_calls')].agui_thread_id = id

\* The value the call of this step returned.
ClearReturned == clear_calls'[Len(clear_calls')].returned

C21_ClearThreadMapping ==
    [][\A id \in ThreadIds : ClearCalled(id) =>
          /\ ClearReturned = HasKey(agui_to_assistant_thread_store, id)
          /\ ~HasKey(agui_to_assistant_thread_store', id)
          /\ \A k \in ThreadIds \ {id} :
                /\ HasKey(agui_to_assistant_thread_store', k)
                      = HasKey(agui_to_assistant_thread_store, k)
                /\ HasKey(agui_to_assistant_thread_store, k) =>
                      agui_to_assistant_thread_store'[k] = agui_to_assistant_thread_store[k]
          /\ ~HasKey(agui_to_assistant_thread_store, id) =>
                /\ ~ClearReturned
                /\ agui_to_assistant_thread_store' = agui_to_assistant_thread_store]_vars

\* Two calls for one id, the first removing its entry and the second
\* finding none, while the entry of the other thread stays.
C21_Witness ==
    /\ Len(clear_calls) = 2
    /\ clear_calls[1] = [agui_thread_id |-> "t1", returned |-> TRUE]
    /\ clear_calls[2] = [agui_thread_id |-> "t1", returned |-> FALSE]
    /\ DOMAIN agui_to_assistant_thread_store = {"t2"}

\* ------------------------------------------------------------------------
\* C22 No step of process(), of the stream wrappers or of the message filters
\*     removes a key: a thread id that has an entry in the Responses store
\*     has one in every later state, and an entry of the Assistants store
\*     disappears only in a call of clear_thread_mapping for its id.
\* ------------------------------------------------------------------------
C22_EntriesStayUnlessCleared ==
    [][/\ \A t \in DOMAIN thread_response_store : HasKey(thread_response_store', t)
       /\ \A t \in DOMAIN agui_to_assistant_thread_store :
             ~HasKey(agui_to_assistant_thread_store', t) => ClearCalled(t)]_vars

\* The Responses entry of t1 survived a later turn that failed, and the
\* Assistants entry of t1 is gone after a call that cleared it and a
\* further turn that stored nothing.
C22_Witness ==
    /\ HasKey(thread_response_store, "t1")
    /\ turn[1].outcome = "raised"
    /\ clear_calls = <<[agui_thread_id |-> "t1", returned |-> TRUE]>>
    /\ ~HasKey(agui_to_assistant_thread_store, "t1")
    /\ assistant_turn.outcome = "exhausted"

\* ------------------------------------------------------------------------
\* C23 A TEXT_MESSAGE_START is not emitted when it arrives: it becomes the
\*     one pending start.  A pending start that is displaced before content
\*     for its message id arrives (by a later TEXT_MESSAGE_START, by a
\*     TOOL_CALL_START, emitted or suppressed, or by RUN_FINISHED) is never
\*     emitted afterwards.
\* ------------------------------------------------------------------------

\* Input k was yielded.
EmittedInput(k) == \E o \in 1..Len(out) : out[o].src = k

\* Input k is a start that input j displaced before content for its id came.
DisplacedBy(k, j) ==
    /\ inp[k].type = "TEXT_MESSAGE_START"
    /\ k < j
    /\ inp[j].type \in {"TEXT_MESSAGE_START", "TOOL_CALL_START", "RUN_FINISHED"}
    /\ \A i \in (k + 1)..(j - 1) :
          ~(inp[i].type = "TEXT_MESSAGE_CONTENT" /\ inp[i].message_id = inp[k].message_id)

C23_DisplacedStartNeverEmitted ==
    /\ Len(pending_text_start) <= 1
    /\ (Len(inp) > 0 /\ inp[Len(inp)].type = "TEXT_MESSAGE_START") =>
          /\ pending_text_start = <<[event |-> inp[Len(inp)], src |-> Len(inp)]>>
          /\ ~EmittedInput(Len(inp))
    /\ \A k, j \in 1..Len(inp) : DisplacedBy(k, j) => ~EmittedInput(k)

\* A start displaced by a suppressed duplicate TOOL_CALL_START, then content
\* for its message id: the start stays unemitted.
C23_Witness ==
    \E k, j, c \in 1..Len(inp) :
        /\ DisplacedBy(k, j)
        /\ j = k + 1
        /\ inp[j].type = "TOOL_CALL_START"
        /\ ~EmittedInput(j)
        /\ c > j
        /\ inp[c].type = "TEXT_MESSAGE_CONTENT"
        /\ inp[c].message_id = inp[k].message_id
        /\ \A i \in (j + 1)..(c - 1) : inp[i].type # "TEXT_MESSAGE_START"

\* ------------------------------------------------------------------------
\* C24 Every emitted TEXT_MESSAGE_START is directly followed in the output
\*     by a TEXT_MESSAGE_CONTENT for the same message id: content of its
\*     message releases the start, directly before that content.  In the
\*     step that releases it the message id joins emitted_messages and
\*     pending_text_start is cleared.
\* ------------------------------------------------------------------------

\* Output o of sequence o_ is a start directly followed by content of its id.
StartThenContent(o_, o) ==
    /\ o < Len(o_)
    /\ o_[o + 1].event.type = "TEXT_MESSAGE_CONTENT"
    /\ o_[o + 1].event.message_id = o_[o].event.message_id
    /\ o_[o + 1].src > o_[o].src

C24_StartReleasedByContent ==
    [][/\ \A o \in 1..Len(out') :
             out'[o].event.type = "TEXT_MESSAGE_START" => StartThenContent(out', o)
       /\ \A o \in (Len(out) + 1)..Len(out') :
             out'[o].event.type = "TEXT_MESSAGE_START" =>
                /\ pending_text_start = <<[event |-> out'[o].event, src |-> out'[o].src]>>
                /\ out'[o + 1].src = Len(inp')
                /\ emitted_messages' = emitted_messages \cup {out'[o].event.message_id}
                /\ pending_text_start' = <<>>]_vars

\* A start has just been released by content of its message.
C24_Witness ==
    /\ Len(out) >= 2
    /\ out[Len(out) - 1].event.type = "TEXT_MESSAGE_START"
    /\ out[Len(out)].src = Len(inp)
    /\ out[Len(out) - 1].src < Len(inp) - 1
    /\ out[Len(out)].event.message_id \in emitted_messages
    /\ pending_text_start = <<>>

\* ------------------------------------------------------------------------
\* C25 A TEXT_MESSAGE_END that arrives is emitted if and only if its message
\*     id is in emitted_messages at that moment; when it is emitted the id
\*     leaves emitted_messages.  So an end for a message whose start was
\*     not emitted, and a second end for one emitted start, are suppressed:
\*     every emitted end closes an emitted start of its id that no end has
\*     closed yet.
\* ------------------------------------------------------------------------

\* This step takes a TEXT_MESSAGE_END from the input.
EndArrives ==
    /\ Len(inp') = Len(inp) + 1
    /\ inp'[Len(inp')].type = "TEXT_MESSAGE_END"

\* Output o of sequence o_ is an end with an earlier start of its id and no
\* end of that id between the two.
ClosesOpenStart(o_, o) ==
    \E b \in 1..(o - 1) :
        /\ o_[b].event.type = "TEXT_MESSAGE_START"
        /\ o_[b].event.message_id = o_[o].event.message_id
        /\ \A i \in (b + 1)..(o - 1) :
              ~(o_[i].event.type = "TEXT_MESSAGE_END"
                /\ o_[i].event.message_id = o_[o].event.message_id)

C25_EndOnlyForOpenMessage ==
    [][EndArrives =>
          LET e == inp'[Len(inp')] IN
          IF e.message_id \in emitted_messages
          THEN /\ out' = Append(out, [event |-> e, src |-> Len(inp')])
               /\ emitted_messages' = emitted_messages \ {e.message_id}
               /\ ClosesOpenStart(out', Len(out'))
          ELSE /\ out' = out
               /\ emitted_messages' = emitted_messages]_vars

\* Two ends in a row for one message: the first emitted, the second not.
C25_Witness ==
    /\ Len(inp) >= 2
    /\ inp[Len(inp)].type = "TEXT_MESSAGE_END"
    /\ inp[Len(inp) - 1] = inp[Len(inp)]
    /\ EmittedInput(Len(inp) - 1)
    /\ ~EmittedInput(Len(inp))

\* ------------------------------------------------------------------------
\* C26 On RUN_FINISHED a pending start is discarded without being emitted;
\*     a TEXT_MESSAGE_END is injected for exactly the message ids that are
\*     in emitted_messages and in messages_with_content, once each, before
\*     RUN_FINISHED itself is emitted; afterwards emitted_messages,
\*     messages_with_content, emitted_tool_calls, emitted_tool_names and
\*     suppressed_tool_ids are empty.
\* ------------------------------------------------------------------------

\* This step takes a RUN_FINISHED from the input.
RunFinishedArrives ==
    /\ Len(inp') = Len(inp) + 1
    /\ inp'[Len(inp')].type = "RUN_FINISHED"

C26_RunFinishedCleanup ==
    [][RunFinishedArrives =>
          LET closed == emitted_messages \cap messages_with_content
              n == Cardinality(closed)
          IN /\ pending_text_start' = <<>>
             /\ Len(out') = Len(out) + n + 1
             /\ SubSeq(out', 1, Len(out)) = out
             /\ \A i \in 1..n :
                   /\ out'[Len(out) + i].src = 0
                   /\ out'[Len(out) + i].event.type = "TEXT_MESSAGE_END"
             /\ {out'[Len(out) + i].event.message_id : i \in 1..n} = closed
             /\ out'[Len(out')] = [event |-> inp'[Len(inp')], src |-> Len(inp')]
             /\ emitted_messages' = {}
             /\ messages_with_content' = {}
             /\ emitted_tool_calls' = {}
             /\ emitted_tool_names' = {}
             /\ suppressed_tool_ids' = {}]_vars

\* RUN_FINISHED arrived with a start pending and a message open with
\* content: an end was injected, the start was dropped.
C26_Witness ==
    /\ Len(inp) >= 2
    /\ inp[Len(inp)].type = "RUN_FINISHED"
    /\ inp[Len(inp) - 1].type = "TEXT_MESSAGE_START"
    /\ ~EmittedInput(Len(inp) - 1)
    /\ Len(out) >= 2
    /\ out[Len(out)].event.type = "RUN_FINISHED"
    /\ out[Len(out) - 1].src = 0
    /\ emitted_messages = {}
    /\ emitted_tool_names = {}

\* ------------------------------------------------------------------------
\* C27 patched_run_agent resolves the thread id in the priority its comment
\*     gives: threadId from the context, then forwardedProps.threadId, then
\*     state.threadId, then thread_id / threadId of input_data, then a fresh
\*     UUID; the first non-empty one is set in the ContextVar.  The code
\*     violates it: thread_id and threadId of input_data are tried before
\*     forwardedProps and state.
\* ------------------------------------------------------------------------
C27_CommentPriority ==
    current_agui_thread_id # None =>
        current_agui_thread_id =
            Or(ContextThreadId(input_data.context),
               Or(input_data.forwardedProps,
                  Or(input_data.state,
                     Or(input_data.thread_id, Or(input_data.threadId, FreshUuid)))))

\* ------------------------------------------------------------------------
\* C28 Every emitted TEXT_MESSAGE_CONTENT for a message id is emitted while
\*     that message is open: after an emitted TEXT_MESSAGE_START for the id
\*     and with no emitted TEXT_MESSAGE_END for the id since.  The code
\*     violates it: content is yielded whether or not a start was emitted,
\*     so content of a message whose buffered start a tool call discarded
\*     goes out without a start.
\* ------------------------------------------------------------------------
C28_ContentOnlyWhileOpen ==
    \A o \in 1..Len(out) :
        out[o].event.type = "TEXT_MESSAGE_CONTENT" =>
            \E b \in 1..(o - 1) :
                /\ out[b].event.type = "TEXT_MESSAGE_START"
                /\ out[b].event.message_id = out[o].event.message_id
                /\ \A i \in (b + 1)..(o - 1) :
                      ~(out[i].event.type = "TEXT_MESSAGE_END"
                        /\ out[i].event.message_id = out[o].event.message_id)

\* ------------------------------------------------------------------------
\* C29 emitted_tool_calls and suppressed_tool_ids are disjoint in every
\*     reachable state, so the TOOL_CALL_ARGS, TOOL_CALL_END and
\*     TOOL_CALL_RESULT of a call whose TOOL_CALL_START was emitted are
\*     emitted.  The code violates it: a second TOOL_CALL_START with an
\*     emitted call id puts that id into suppressed_tool_ids.
\* ------------------------------------------------------------------------
C29_EmittedAndSuppressedDisjoint ==
    /\ emitted_tool_calls \cap suppressed_tool_ids = {}
    /\ \A k \in 1..Len(inp) :
          (/\ inp[k].type \in {"TOOL_CALL_ARGS", "TOOL_CALL_END", "TOOL_CALL_RESULT"}
           /\ \E b \in 1..(k - 1) :
                 /\ inp[b].type = "TOOL_CALL_START"
                 /\ inp[b].tool_call_id = inp[k].tool_call_id
                 /\ EmittedInput(b)
                 /\ \A i \in (b + 1)..(k - 1) : inp[i].type # "RUN_FINISHED")
          => EmittedInput(k)

\* ------------------------------------------------------------------------
\* C30 In every reachable state each non-empty message id in
\*     emitted_messages is also in messages_with_content, a start being
\*     released only together with content of its id; so at RUN_FINISHED
\*     every such open message gets an injected TEXT_MESSAGE_END and
\*     emitted_messages is empty afterwards.
\* ------------------------------------------------------------------------

====
